---- MODULE Spec2Model ----
(***************************************************************************)
(* Model of the hot-reload host (app_shell::ShellApp), the dynamic core    *)
(* (app_core::CoreApp) and the loader (load_library).                      *)
(*                                                                         *)
(* An instance handle is the identity of one allocation made by            *)
(* create_app; a library handle is the identity of one Library::new call.  *)
(* Every call through a handle appends an event to `trace`, which holds    *)
(* the calls made by the most recent step in program order; each event     *)
(* records whether the image behind the call was resident and whether the  *)
(* instance was alive at the moment of the call.                           *)
(***************************************************************************)
EXTENDS Integers, Sequences, FiniteSets, TLC

\* ---------------------------------------------------------------- bounds
MaxImages == 3      \* images loaded, plus load attempts signalled
MaxMtime == 2       \* modification times of the artifact are 0..MaxMtime
MaxCount == 1       \* |counter| <= MaxCount
MaxPending == 2     \* Message::Reload values in flight at once
UnitsPerSecond == 2 \* resolution of a modification time, per second

\* ------------------------------------------------------------- constants
Null == 0           \* the null AppInterfacePtr
NoLib == 0          \* no Library / Option<DestroyFn> = None
NoTime == -1        \* no SystemTime (before ShellApp exists)

\* The step of load_library at which the artifact currently on disk makes
\* the call fail ("none": the load succeeds).
Faults ==
    {"none", "metadata", "timestamp", "copy", "load",
     "create_sym", "destroy_sym", "null"}

VARIABLES
    phase,            \* "init" | "running" | "panicked" | "exited"
    windows,          \* cfg!(windows)
    app_interface,    \* ShellApp.app_interface
    destroy_fn,       \* ShellApp.destroy_fn: image the pointer points into
    lib,              \* ShellApp._lib
    last_modified,    \* ShellApp.last_modified
    use_dummy_view,   \* ShellApp.use_dummy_view
    heap,             \* instances created by create_app, by handle
    images,           \* images loaded by Library::new, by library handle
    files,            \* versioned copies present on disk (by suffix)
    artifact,         \* the build artifact on disk: [mtime, fault]
    pending,          \* Message::Reload values produced and not yet handled
    trace,            \* calls made by the most recent step, in order
    op,               \* the most recent step
    lastReload,       \* outcome of the most recent Reload step
    attempted,        \* mtime read by the last load, while the artifact keeps it
    served            \* parity of the number of Message::Reload values handled

vars ==
    <<phase, windows, app_interface, destroy_fn, lib, last_modified,
      use_dummy_view, heap, images, files, artifact, pending, trace, op,
      lastReload, attempted, served>>

\* ----------------------------------------------------- the world record
\* The part of the state that calls across the module boundary read and
\* write, threaded through the operators below in program order.
World(t) ==
    [heap |-> heap, images |-> images, files |-> files, trace |-> t]

Resident(w, img) ==
    img \in 1..Len(w.images) /\ w.images[img].state = "loaded"

Live(w, h) ==
    h \in 1..Len(w.heap) /\ w.heap[h].status = "live"

Emit(w, call, h, img) ==
    [w EXCEPT !.trace = Append(@,
        [call |-> call, h |-> h, img |-> img,
         resident |-> Resident(w, img), live |-> Live(w, h)])]

ImageOf(w, h) ==
    IF h \in 1..Len(w.heap) THEN w.heap[h].image ELSE NoLib

\* ------------------------------------------------------------- app_core
\* CoreApp::state
core_state(w, h) ==
    [w |-> Emit(w, "state", h, ImageOf(w, h)),
     counter |-> IF h \in 1..Len(w.heap) THEN w.heap[h].counter ELSE 0]

\* CoreApp::update
core_update(w, h, message) ==
    LET w1 == Emit(w, "update", h, ImageOf(w, h))
        d == CASE message = "Increment" -> 1
               [] message = "Decrement" -> -1
               [] OTHER -> 0
    IN  IF h \in 1..Len(w.heap)
        THEN [w1 EXCEPT !.heap[h].counter = @ + d]
        ELSE w1

\* CoreApp::view
core_view(w, h) ==
    Emit(w, "view", h, ImageOf(w, h))

\* create_app that builds the CoreApp from a default state instead of the
\* state it is given.
create_app_Default(w, img, state) ==
    LET ptr == Len(w.heap) + 1
        w1 == [w EXCEPT !.heap = Append(@,
                 [counter |-> 0, image |-> img,
                  status |-> "live", destroys |-> 0])]
    IN  [w |-> Emit(w1, "create", ptr, img), ptr |-> ptr]

\* create_app, called through the create symbol of image img
create_app(w, img, state) ==
    LET ptr == Len(w.heap) + 1
        w1 == [w EXCEPT !.heap = Append(@,
                 [counter |-> state, image |-> img,
                  status |-> "live", destroys |-> 0])]
    IN  [w |-> Emit(w1, "create", ptr, img), ptr |-> ptr]

\* destroy_app, called through the destroy symbol of image img: a non-null
\* pointer is freed, and the CoreApp it held (its counter) is gone.
destroy_app(w, img, ptr) ==
    LET w1 == Emit(w, "destroy", ptr, img)
    IN  IF ptr /= Null /\ ptr \in 1..Len(w.heap)
        THEN [w1 EXCEPT !.heap[ptr].status = "destroyed",
                        !.heap[ptr].counter = 0,
                        !.heap[ptr].destroys = @ + 1]
        ELSE w1

\* ------------------------------------------------------------ libloading
\* Library::new
LibraryNew(w, path) ==
    LET w1 == [w EXCEPT !.images = Append(@, [state |-> "loaded", path |-> path])]
    IN  Emit(w1, "load", Null, Len(w1.images))

\* Drop for Library
LibraryDrop(w, img) ==
    LET w1 == Emit(w, "unload", Null, img)
    IN  IF img \in 1..Len(w.images)
        THEN [w1 EXCEPT !.images[img].state = "released"]
        ELSE w1

\* ------------------------------------------------------------- app_shell
\* A suffix "[year]-[month]-[day]_[hour]-[minute]" that leaves the second out.
format_suffix_Minute(timestamp) ==
    timestamp \div (UnitsPerSecond * 2)

\* The version suffix "[year]-[month]-[day]_[hour]-[minute]-[second]" of a
\* SystemTime: the timestamp truncated to whole seconds.  Modification
\* times are counted in units of 1/UnitsPerSecond s.
format_suffix(timestamp) ==
    timestamp \div UnitsPerSecond

\* make_lib_path: "target/<profile>/<lib_name>.<extension>"
make_lib_path(lib_name) ==
    [folder |-> "target/debug", name |-> lib_name, extension |-> "dll"]

\* LibInfo as built by ShellApp::new
lib_info ==
    [name |-> "app_core", path |-> make_lib_path(<<"app_core">>),
     create_fn_name |-> "create_app", destroy_fn_name |-> "destroy_app"]

\* fs::copy(&lib_info.path, &load_lib_path)
fs_copy(w, to) ==
    LET w1 == [w EXCEPT !.trace = Append(@,
                 [call |-> "copy", h |-> Null, img |-> NoLib,
                  resident |-> to \in w.files, live |-> FALSE])]
    IN  [w1 EXCEPT !.files = @ \cup {to}]

\* The create entry point of the image loaded from the artifact art: the
\* artifact's create_app, or an entry point that reports failure (null).
create_fn(w, img, art, state) ==
    IF art.fault = "null"
    THEN [w |-> Emit(w, "create", Null, img), ptr |-> Null]
    ELSE create_app(w, img, state)

Err(w) ==
    [ok |-> FALSE, w |-> w, library |-> NoLib, app_i |-> Null,
     destroy_fn |-> NoLib, timestamp |-> NoTime]

\* A load_library that calls create before it resolves the destroy symbol.
load_library_CreateEarly(w, art, win, app_state) ==
    IF ~win THEN Err(w)
    ELSE IF art.fault = "metadata" THEN Err(w)
    ELSE IF art.fault = "timestamp" THEN Err(w)
    ELSE
      LET timestamp == art.mtime
          suffix == format_suffix(timestamp)
          load_lib_path == make_lib_path(<<lib_info.name, suffix>>)
      IN
      IF art.fault = "copy" THEN Err(w)
      ELSE
        LET w1 == fs_copy(w, load_lib_path) IN
        IF art.fault = "load" THEN Err(w1)
        ELSE
          LET w2 == LibraryNew(w1, load_lib_path)
              library == Len(w2.images)
          IN
          IF art.fault = "create_sym" THEN Err(LibraryDrop(w2, library))
          ELSE
            LET c == create_fn(w2, library, art, app_state) IN
            IF art.fault = "destroy_sym" THEN Err(LibraryDrop(c.w, library))
            ELSE IF c.ptr = Null THEN Err(LibraryDrop(c.w, library))
            ELSE [ok |-> TRUE, w |-> c.w, library |-> library,
                  app_i |-> c.ptr, destroy_fn |-> library,
                  timestamp |-> timestamp]

\* load_library: metadata, timestamp, copy, Library::new, the two symbols,
\* create.  A local `library` is dropped on every return after Library::new
\* that does not move it into the result.
load_library(w, art, win, app_state) ==
    IF ~win THEN Err(w)
    ELSE IF art.fault = "metadata" THEN Err(w)
    ELSE IF art.fault = "timestamp" THEN Err(w)
    ELSE
      LET timestamp == art.mtime
          suffix == format_suffix(timestamp)
          load_lib_path == make_lib_path(<<lib_info.name, suffix>>)
      IN
      IF art.fault = "copy" THEN Err(w)
      ELSE
        LET w1 == fs_copy(w, load_lib_path) IN
        IF art.fault = "load" THEN Err(w1)
        ELSE
          LET w2 == LibraryNew(w1, load_lib_path)
              library == Len(w2.images)
          IN
          IF art.fault = "create_sym" THEN Err(LibraryDrop(w2, library))
          ELSE IF art.fault = "destroy_sym" THEN Err(LibraryDrop(w2, library))
          ELSE
            LET destroy_fn_raw == library
                c == create_fn(w2, library, art, app_state)
            IN
            IF c.ptr = Null THEN Err(LibraryDrop(c.w, library))
            ELSE [ok |-> TRUE, w |-> c.w, library |-> library,
                  app_i |-> c.ptr, destroy_fn |-> destroy_fn_raw,
                  timestamp |-> timestamp]

\* A ShellApp without its Drop impl: only the fields are dropped.
DropShellApp_NoDestroy(w, ai, df, l) ==
    LibraryDrop(w, l)

\* A ShellApp whose library is released before Drop::drop runs.
DropShellApp_LibFirst(w, ai, df, l) ==
    destroy_app(LibraryDrop(w, l), df, ai)

\* Dropping a ShellApp value: Drop::drop calls destroy_fn on app_interface,
\* then the fields are dropped in declaration order (app_interface,
\* destroy_fn, _lib, ...), of which only _lib has an effect.
DropShellApp(w, ai, df, l) ==
    LibraryDrop(destroy_app(w, df, ai), l)

\* ------------------------------------------------------ ShellApp methods
\* The ShellApp value held in the variables.
Self ==
    [app_interface |-> app_interface, destroy_fn |-> destroy_fn, lib |-> lib,
     last_modified |-> last_modified, use_dummy_view |-> use_dummy_view]

\* A ShellApp::new that goes on with whatever the initial load returned.
new_Swallow(w, art, win) ==
    LET r == load_library(w, art, win, 0) IN
    [ok |-> TRUE, w |-> r.w,
     self |-> [app_interface |-> r.app_i, destroy_fn |-> r.destroy_fn,
               lib |-> r.library, last_modified |-> r.timestamp,
               use_dummy_view |-> FALSE]]

\* ShellApp::new: the value built from the initial load, or the panic of
\* .expect("Failed to load initial library").
new(w, art, win) ==
    LET r == load_library(w, art, win, 0) IN
    IF r.ok
    THEN [ok |-> TRUE, w |-> r.w,
          self |-> [app_interface |-> r.app_i, destroy_fn |-> r.destroy_fn,
                    lib |-> r.library, last_modified |-> r.timestamp,
                    use_dummy_view |-> FALSE]]
    ELSE [ok |-> FALSE, w |-> r.w, self |-> Self]

\* A Reload arm that tears the old module down before loading the new one.
update_Reload_DropFirst(w, self, art, win) ==
    LET s == core_state(w, self.app_interface)
        d == DropShellApp(s.w, self.app_interface, self.destroy_fn, self.lib)
        r == load_library(d, art, win, s.counter)
    IN
    IF r.ok
    THEN [ok |-> TRUE, w |-> r.w,
          self |-> [app_interface |-> r.app_i, destroy_fn |-> r.destroy_fn,
                    lib |-> r.library, last_modified |-> r.timestamp,
                    use_dummy_view |-> FALSE]]
    ELSE [ok |-> FALSE, w |-> r.w, self |-> self]

\* A Reload arm that overwrites *self without dropping the old value.
update_Reload_Leak(w, self, art, win) ==
    LET s == core_state(w, self.app_interface)
        r == load_library(s.w, art, win, s.counter)
    IN
    IF r.ok
    THEN [ok |-> TRUE, w |-> r.w,
          self |-> [app_interface |-> r.app_i, destroy_fn |-> r.destroy_fn,
                    lib |-> r.library, last_modified |-> r.timestamp,
                    use_dummy_view |-> FALSE]]
    ELSE [ok |-> FALSE, w |-> r.w, self |-> self]

\* A Reload arm that keeps the old instance pointer in the new value.
update_Reload_StalePtr(w, self, art, win) ==
    LET s == core_state(w, self.app_interface)
        r == load_library(s.w, art, win, s.counter)
    IN
    IF r.ok
    THEN [ok |-> TRUE,
          w |-> DropShellApp(r.w, self.app_interface, self.destroy_fn, self.lib),
          self |-> [app_interface |-> self.app_interface,
                    destroy_fn |-> r.destroy_fn,
                    lib |-> r.library, last_modified |-> r.timestamp,
                    use_dummy_view |-> FALSE]]
    ELSE [ok |-> FALSE, w |-> r.w, self |-> self]

\* A Reload arm that does nothing unless the placeholder flag is set.
update_Reload_OnlyWhenFlushed(w, self, art, win) ==
    LET s == core_state(w, self.app_interface)
        r == load_library(s.w, art, win, s.counter)
    IN
    IF ~self.use_dummy_view THEN [ok |-> FALSE, w |-> w, self |-> self]
    ELSE IF r.ok
    THEN [ok |-> TRUE,
          w |-> DropShellApp(r.w, self.app_interface, self.destroy_fn, self.lib),
          self |-> [app_interface |-> r.app_i, destroy_fn |-> r.destroy_fn,
                    lib |-> r.library, last_modified |-> r.timestamp,
                    use_dummy_view |-> FALSE]]
    ELSE [ok |-> FALSE, w |-> r.w, self |-> self]

\* A Reload arm that keeps the old destroy entry point in the new value.
update_Reload_StaleDestroy(w, self, art, win) ==
    LET s == core_state(w, self.app_interface)
        r == load_library(s.w, art, win, s.counter)
    IN
    IF r.ok
    THEN [ok |-> TRUE,
          w |-> DropShellApp(r.w, self.app_interface, self.destroy_fn, self.lib),
          self |-> [app_interface |-> r.app_i, destroy_fn |-> self.destroy_fn,
                    lib |-> r.library, last_modified |-> r.timestamp,
                    use_dummy_view |-> FALSE]]
    ELSE [ok |-> FALSE, w |-> r.w, self |-> self]

\* ShellApp::update, Message::Reload arm: `*self = Self {..}` builds the new
\* value, then drops the old one.
update_Reload(w, self, art, win) ==
    LET s == core_state(w, self.app_interface)
        current_state == s.counter
        r == load_library(s.w, art, win, current_state)
    IN
    IF r.ok
    THEN [ok |-> TRUE,
          w |-> DropShellApp(r.w, self.app_interface, self.destroy_fn, self.lib),
          self |-> [app_interface |-> r.app_i, destroy_fn |-> r.destroy_fn,
                    lib |-> r.library, last_modified |-> r.timestamp,
                    use_dummy_view |-> FALSE]]
    ELSE [ok |-> FALSE, w |-> r.w, self |-> self]

\* A Tick arm that signals when the artifact is not older than the baseline.
update_Tick_NotOlder(self, art) ==
    IF /\ art.fault \notin {"metadata", "timestamp"}
       /\ art.mtime >= self.last_modified
    THEN [self |-> [self EXCEPT !.use_dummy_view = TRUE], task |-> "Reload"]
    ELSE [self |-> self, task |-> "none"]

\* A Tick arm that moves the baseline itself when it signals.
update_Tick_Advance(self, art) ==
    IF /\ art.fault \notin {"metadata", "timestamp"}
       /\ art.mtime > self.last_modified
    THEN [self |-> [self EXCEPT !.use_dummy_view = TRUE,
                                !.last_modified = art.mtime],
          task |-> "Reload"]
    ELSE [self |-> self, task |-> "none"]

\* ShellApp::update, Message::Tick arm; task is the Task it returns.
update_Tick(self, art) ==
    IF /\ art.fault \notin {"metadata", "timestamp"}
       /\ art.mtime > self.last_modified
    THEN [self |-> [self EXCEPT !.use_dummy_view = TRUE], task |-> "Reload"]
    ELSE [self |-> self, task |-> "none"]

\* A `_` arm that swallows the message.
update_Forward_Swallow(w, self, message) ==
    w

\* ShellApp::update, the `_` arm
update_Forward(w, self, message) ==
    core_update(w, self.app_interface, message)

\* ShellApp::view
view(w, self) ==
    IF self.use_dummy_view
    THEN w
    ELSE core_view(w, self.app_interface)

\* --------------------------------------------------------------- actions
Init ==
    /\ phase = "init"
    /\ windows \in BOOLEAN
    /\ app_interface = Null
    /\ destroy_fn = NoLib
    /\ lib = NoLib
    /\ last_modified = NoTime
    /\ use_dummy_view = FALSE
    /\ heap = <<>>
    /\ images = <<>>
    /\ files = {}
    /\ artifact \in [mtime : 0..MaxMtime, fault : Faults]
    /\ pending = 0
    /\ trace = <<>>
    /\ op = "init"
    /\ lastReload = "none"
    /\ attempted = NoTime
    /\ served = 0

SetSelf(self) ==
    /\ app_interface' = self.app_interface
    /\ destroy_fn' = self.destroy_fn
    /\ lib' = self.lib
    /\ last_modified' = self.last_modified
    /\ use_dummy_view' = self.use_dummy_view

SetWorld(w) ==
    /\ heap' = w.heap
    /\ images' = w.images
    /\ files' = w.files
    /\ trace' = w.trace

\* The modification time a load attempt on the artifact art gets to read.
TimestampRead(art) ==
    IF windows /\ art.fault \notin {"metadata", "timestamp"}
    THEN art.mtime ELSE NoTime

\* The process starts: ShellApp::default()
New ==
    /\ phase = "init"
    /\ LET r == new(World(<<>>), artifact, windows) IN
       /\ SetWorld(r.w)
       /\ SetSelf(r.self)
       /\ phase' = IF r.ok THEN "running" ELSE "panicked"
       /\ op' = IF r.ok THEN "new_ok" ELSE "new_panic"
    /\ attempted' = TimestampRead(artifact)
    /\ UNCHANGED <<windows, artifact, pending, lastReload, served>>

\* The runtime delivers a Message::Reload produced by an earlier Tick.
Reload ==
    /\ phase = "running"
    /\ pending > 0
    /\ LET r == update_Reload(World(<<>>), Self, artifact, windows) IN
       /\ SetWorld(r.w)
       /\ SetSelf(r.self)
       /\ op' = IF r.ok THEN "reload_ok" ELSE "reload_failed"
       /\ lastReload' = IF r.ok THEN "ok" ELSE "failed"
    /\ pending' = pending - 1
    /\ served' = 1 - served
    /\ attempted' = IF TimestampRead(artifact) /= NoTime
                    THEN TimestampRead(artifact) ELSE attempted
    /\ UNCHANGED <<phase, windows, artifact>>

\* The subscription delivers a Message::Tick.
Tick ==
    /\ phase = "running"
    /\ LET r == update_Tick(Self, artifact) IN
       /\ r.task = "Reload" =>
             /\ pending < MaxPending
             /\ Len(images) + pending < MaxImages
       /\ SetSelf(r.self)
       /\ pending' = IF r.task = "Reload" THEN pending + 1 ELSE pending
       /\ op' = IF r.task = "Reload" THEN "tick_signal" ELSE "tick_idle"
    /\ trace' = <<>>
    /\ UNCHANGED <<phase, windows, heap, images, files, artifact, lastReload,
                   attempted, served>>

\* A button of the core's view delivers Message::Increment / Decrement.
Deliver(message) ==
    /\ phase = "running"
    /\ message = "Increment" => heap[app_interface].counter < MaxCount
    /\ message = "Decrement" => heap[app_interface].counter > -MaxCount
    /\ SetWorld(update_Forward(World(<<>>), Self, message))
    /\ op' = message
    /\ UNCHANGED <<phase, windows, app_interface, destroy_fn, lib,
                   last_modified, use_dummy_view, artifact, pending,
                   lastReload, attempted, served>>

Increment == Deliver("Increment")

Decrement == Deliver("Decrement")

\* The runtime asks for the view.
View ==
    /\ phase = "running"
    /\ SetWorld(view(World(<<>>), Self))
    /\ op' = "view"
    /\ UNCHANGED <<phase, windows, app_interface, destroy_fn, lib,
                   last_modified, use_dummy_view, artifact, pending,
                   lastReload, attempted, served>>

\* The application ends and the ShellApp is dropped.
Shutdown ==
    /\ phase = "running"
    /\ SetWorld(DropShellApp(World(<<>>), app_interface, destroy_fn, lib))
    /\ phase' = "exited"
    /\ op' = "drop"
    /\ UNCHANGED <<windows, app_interface, destroy_fn, lib, last_modified,
                   use_dummy_view, artifact, pending, lastReload, attempted,
                   served>>

\* The environment rewrites the artifact (a rebuild, a touch, a file that
\* becomes unreadable or broken); its modification time never goes back.
Touch ==
    /\ phase = "running"
    /\ \E a \in [mtime : 0..MaxMtime, fault : Faults] :
          /\ a /= artifact
          /\ a.mtime >= artifact.mtime
          /\ artifact' = a
          /\ attempted' = IF a.mtime = artifact.mtime THEN attempted ELSE NoTime
    /\ trace' = <<>>
    /\ op' = "touch"
    /\ UNCHANGED <<phase, windows, app_interface, destroy_fn, lib,
                   last_modified, use_dummy_view, heap, images, files,
                   pending, lastReload, served>>

Next ==
    \/ New
    \/ Reload
    \/ Tick
    \/ Increment
    \/ Decrement
    \/ View
    \/ Shutdown
    \/ Touch

Spec == Init /\ [][Next]_vars

\* A Message::Reload in flight is handed to update: the steps that take a
\* message out of flight are the Reload steps, which are enabled whenever
\* one is in flight in a running host.
Delivered ==
    phase = "running" /\ pending > 0 /\ pending' = pending - 1

\* The runtime delivers every message a Task has produced.
LiveSpec == Spec /\ WF_pending(Delivered)

\* ------------------------------------------------------------ properties
Handles == 1..Len(heap)

Calls(c) == {i \in DOMAIN trace : trace[i].call = c}

ReloadOk == Reload /\ op' = "reload_ok"

ReloadFailed == Reload /\ op' = "reload_failed"

\* C1: state preservation.  In every Reload step whose load succeeds, the
\* counter of the newly installed instance right after the step equals the
\* counter the old instance had right before it, whatever Increment and
\* Decrement events were delivered before (also those delivered between
\* the signalling Tick and the Reload).
C1_StatePreserved ==
    [][ReloadOk =>
          /\ app_interface' /= app_interface
          /\ heap'[app_interface'].status = "live"
          /\ heap'[app_interface'].counter = heap[app_interface].counter]_vars

\* A successful reload has carried a non-zero counter into a new instance.
C1_Witness ==
    /\ op = "reload_ok"
    /\ app_interface > 1
    /\ heap[app_interface].counter /= 0

\* C2: failure isolation.  A Reload step whose load fails leaves the
\* instance handle, the library, the destroy entry point and the instance
\* (alive, its counter) as they were, with the image still resident; and
\* as long as the last Reload is a failed one, every Increment/Decrement
\* is applied to that same instance.
C2_FailureIsolation ==
    [][/\ ReloadFailed =>
            /\ UNCHANGED <<app_interface, destroy_fn, lib>>
            /\ heap'[app_interface] = heap[app_interface]
            /\ heap[app_interface].status = "live"
            /\ images'[lib] = images[lib]
            /\ images[lib].state = "loaded"
       /\ (lastReload = "failed" /\ (Increment \/ Decrement)) =>
            /\ UNCHANGED <<app_interface, destroy_fn, lib>>
            /\ heap'[app_interface].counter =
                 heap[app_interface].counter
                   + (IF op' = "Increment" THEN 1 ELSE -1)
            /\ Len(trace') = 1
            /\ trace'[1].call = "update"
            /\ trace'[1].h = app_interface
            /\ trace'[1].live
            /\ trace'[1].resident]_vars

\* After a reload that failed once an image had been loaded, a Decrement
\* has been applied to the instance that was active before it.
C2_Witness ==
    /\ lastReload = "failed"
    /\ op = "Decrement"
    /\ Len(images) > Len(heap)
    /\ heap[app_interface].counter = 0

\* C3: after a Reload that failed, with no reload signal outstanding, a
\* view() call delegates to the active instance's view and does not
\* return the empty placeholder.
C3_ViewAfterFailedReload ==
    (phase = "running" /\ lastReload = "failed" /\ pending = 0 /\ op = "view")
      => /\ Len(trace) = 1
         /\ trace[1].call = "view"
         /\ trace[1].h = app_interface

\* C4: destroy is invoked exactly once for every instance create returned,
\* and only on a non-null handle of an instance that is alive at the call:
\* while the host runs every instance but the active one has been destroyed
\* once and the active one not at all, and after the ShellApp is dropped
\* every instance has been destroyed once.
C4_DestroyExactlyOnce ==
    /\ \A i \in Calls("destroy") : trace[i].h /= Null /\ trace[i].live
    /\ \A h \in Handles : heap[h].destroys <= 1
    /\ phase \in {"init", "panicked"} => heap = <<>>
    /\ phase = "running" =>
         \A h \in Handles :
            heap[h].destroys = (IF h = app_interface THEN 0 ELSE 1)
    /\ phase = "exited" => \A h \in Handles : heap[h].destroys = 1

\* The host has shut down after a successful and a failed reload.
C4_Witness ==
    /\ phase = "exited"
    /\ Len(heap) >= 2
    /\ Len(images) > Len(heap)

\* C5: swap ordering.  In a successful Reload the new instance is created,
\* then the old instance is destroyed, then the old library is released;
\* in no step is an instance destroyed by a reload before the create call
\* of that step has returned non-null, and no library is released before
\* the instance it created has been destroyed.
C5_SwapOrdering ==
    /\ op = "reload_ok" =>
         \E i, j, k \in DOMAIN trace :
            /\ i < j /\ j < k
            /\ trace[i].call = "create" /\ trace[i].h = app_interface
            /\ trace[j].call = "destroy" /\ trace[j].h /= app_interface
            /\ trace[k].call = "unload"
            /\ trace[k].img = heap[trace[j].h].image
    /\ op \in {"reload_ok", "reload_failed"} =>
         \A j \in Calls("destroy") :
            \E i \in Calls("create") : i < j /\ trace[i].h /= Null
    /\ \A k \in Calls("unload") :
          \A h \in Handles :
             heap[h].image = trace[k].img =>
                \E j \in Calls("destroy") : j < k /\ trace[j].h = h

\* A second successful reload has just swapped the module.
C5_Witness ==
    /\ op = "reload_ok"
    /\ app_interface = 3

\* C6: while the host runs it holds exactly one instance handle, which is
\* non-null and refers to an instance that is created and not destroyed,
\* and no other instance is alive.
C6_ExactlyOneInstance ==
    phase = "running" =>
       /\ app_interface /= Null
       /\ app_interface \in Handles
       /\ {h \in Handles : heap[h].status = "live"} = {app_interface}

\* The host runs on its second instance after a later reload failed.
C6_Witness ==
    /\ phase = "running"
    /\ lastReload = "failed"
    /\ app_interface = 2

\* C7: no use after unload.  Every call of create, state, update, view or
\* destroy is made while the image it runs in is resident, and while the
\* host runs the images behind its instance and its destroy entry point
\* are resident.
C7_NoUseAfterUnload ==
    /\ \A i \in DOMAIN trace :
          trace[i].call \in {"create", "state", "update", "view", "destroy"}
             => /\ trace[i].resident
                /\ trace[i].h /= Null => trace[i].img = heap[trace[i].h].image
    /\ phase = "running" =>
          /\ images[lib].state = "loaded"
          /\ images[destroy_fn].state = "loaded"
          /\ images[heap[app_interface].image].state = "loaded"

\* The view of the second instance is rendered after the first library
\* has been released.
C7_Witness ==
    /\ op = "view"
    /\ trace /= <<>>
    /\ app_interface = 2
    /\ images[1].state = "released"

\* C8: once a load attempt (successful or failed) has acted on modification
\* time t, no Tick raises a reload signal while the artifact's modification
\* time is still t.
C8_NoResignal ==
    [][(Tick /\ op' = "tick_signal") => artifact.mtime /= attempted]_vars

\* C9: flush before destroy.  use_dummy_view is true at the moment a
\* successful Reload swaps the module and destroys the old instance.
C9_FlushBeforeDestroy ==
    [][ReloadOk => use_dummy_view]_vars

\* C10: reload atomicity.  No Increment/Decrement is delivered to the
\* active module between the step that raises a reload signal and the
\* step that performs the load.
C10_NoEventBetween ==
    [][(Increment \/ Decrement) => pending = 0]_vars

\* The whole second a modification time falls in.
WholeSecond(t) == t \div UnitsPerSecond

\* The Reload step has loaded an image from a versioned copy it wrote.
ReloadLoaded == Reload /\ Len(images') > Len(images)

\* C11: every versioned copy load_library writes goes to a path that no
\* earlier copy of the same process was written to.
C11_FreshCopyPath ==
    \A i \in Calls("copy") : ~trace[i].resident

\* C12 (as claimed): when the modification time a Reload reads differs from
\* the one read by the load of the active module, the versioned path it
\* loads differs from the path the active library was loaded from.
C12_PathInjective ==
    [][(ReloadLoaded /\ artifact.mtime /= last_modified)
          => images'[Len(images')].path /= images[lib].path]_vars

\* C12 (amended): when the two modification times fall in different whole
\* seconds, the two versioned paths differ.
C12_PathInjectiveBySecond ==
    [][(ReloadLoaded /\ WholeSecond(artifact.mtime) /= WholeSecond(last_modified))
          => images'[Len(images')].path /= images[lib].path]_vars

\* A reload has loaded an image for a modification time in a later second
\* than the one of the load before it.
C12_Witness ==
    /\ op \in {"reload_ok", "reload_failed"}
    /\ Len(images) >= 2
    /\ images[Len(images)].path /= images[Len(images) - 1].path

\* C13 (as claimed): every Tick that raises no reload signal and every
\* Increment/Decrement received by update is forwarded to the active
\* module's update.
C13_ForwardAll ==
    op \in {"tick_idle", "Increment", "Decrement"} =>
       \E i \in Calls("update") : trace[i].h = app_interface

\* C13 (amended): every Increment/Decrement is forwarded to the active
\* module's update, which applies it to the counter; a Tick, signalling
\* or not, makes no call into the module and leaves every instance alone.
C13_ForwardEvents ==
    [][/\ (Increment \/ Decrement) =>
            /\ Len(trace') = 1
            /\ trace'[1].call = "update"
            /\ trace'[1].h = app_interface
            /\ heap'[app_interface].counter =
                 heap[app_interface].counter
                   + (IF op' = "Increment" THEN 1 ELSE -1)
       /\ Tick => (trace' = <<>> /\ heap' = heap)]_vars

\* An Increment has been forwarded while the placeholder flag is set, and
\* the module has counted it.
C13_Witness ==
    /\ op = "Increment"
    /\ use_dummy_view
    /\ Calls("update") /= {}
    /\ heap[app_interface].counter = 1

\* C14: only the first load is fatal.  When load_library fails in
\* ShellApp::new the process ends there and no ShellApp ever exists (no
\* step follows); when it fails in a Reload the host keeps running on a
\* live instance.
C14_OnlyFirstLoadFatal ==
    [][/\ (New /\ ~load_library(World(<<>>), artifact, windows, 0).ok) =>
            /\ phase' = "panicked"
            /\ app_interface' = Null /\ lib' = NoLib /\ destroy_fn' = NoLib
            /\ \A h \in 1..Len(heap') : heap'[h].status /= "live"
       /\ ReloadFailed =>
            /\ phase' = "running"
            /\ app_interface' \in 1..Len(heap')
            /\ heap'[app_interface'].status = "live"
       /\ phase /= "panicked"
       /\ phase' = "panicked" => New]_vars

\* The process has ended in ShellApp::new after the image had been loaded.
C14_Witness ==
    /\ phase = "panicked"
    /\ Len(images) = 1

\* The load_library calls of the most recent step, by name and in order.
LoadCalls ==
    LET x == SelectSeq(trace, LAMBDA e : e.call \in {"copy", "load", "create"})
    IN  [i \in 1..Len(x) |-> x[i].call]

LoadSteps == {"new_ok", "new_panic", "reload_ok", "reload_failed"}

\* C15: load_library runs metadata, timestamp, copy, image load, create
\* symbol, destroy symbol, create in that order and stops at the first
\* step that fails: create is called only when both symbols resolved; after
\* a failure every image the call loaded has been released again and the
\* call leaves no instance behind; after a success the loaded image and
\* the created instance are the ones installed.
C15_LoadSteps ==
    op \in LoadSteps =>
       /\ LoadCalls =
            (IF ~windows \/ artifact.fault \in {"metadata", "timestamp", "copy"}
               THEN <<>>
             ELSE IF artifact.fault = "load" THEN <<"copy">>
             ELSE IF artifact.fault \in {"create_sym", "destroy_sym"}
               THEN <<"copy", "load">>
             ELSE <<"copy", "load", "create">>)
       /\ op \in {"new_panic", "reload_failed"} =>
            /\ \A i \in Calls("load") :
                  /\ images[trace[i].img].state = "released"
                  /\ \E k \in Calls("unload") :
                        k > i /\ trace[k].img = trace[i].img
            /\ \A i \in Calls("create") : trace[i].h = Null
            /\ \A h \in Handles :
                  heap[h].status = "live" =>
                     (phase = "running" /\ h = app_interface)
       /\ op \in {"new_ok", "reload_ok"} =>
            /\ artifact.fault = "none"
            /\ \A i \in Calls("load") :
                  trace[i].img = lib /\ images[lib].state = "loaded"
            /\ \A i \in Calls("create") : trace[i].h = app_interface

\* A reload has failed at construction: create returned null and the
\* image loaded for it has been released.
C15_Witness ==
    /\ op = "reload_failed"
    /\ artifact.fault = "null"
    /\ Calls("create") /= {}
    /\ Calls("unload") /= {}

\* C16: use_dummy_view goes from true to false only in a
\* Reload step whose load succeeds, and while the last Reload is a failed
\* one every view() call returns the empty placeholder.
C16_PlaceholderAfterFailure ==
    [][/\ (use_dummy_view /\ ~use_dummy_view') => ReloadOk
       /\ (lastReload = "failed" /\ View) => trace' = <<>>]_vars

\* C17: a Tick raises a reload signal (sets use_dummy_view, emits Reload)
\* if and only if the artifact's modification time is readable and
\* strictly greater than last_modified; otherwise it changes nothing of
\* the host and emits nothing.  No Tick changes last_modified, the
\* instance handle, the library, the destroy entry point or any counter.
C17_TickFrame ==
    [][Tick =>
         LET newer == /\ artifact.fault \notin {"metadata", "timestamp"}
                      /\ artifact.mtime > last_modified
         IN  /\ (pending' = pending + 1) <=> newer
             /\ newer => use_dummy_view'
             /\ ~newer => UNCHANGED <<use_dummy_view, pending>>
             /\ UNCHANGED <<last_modified, app_interface, lib, destroy_fn,
                            heap, images, files>>]_vars

\* A Tick has found a newer artifact that it could not read, and has not
\* signalled.
C17_Witness ==
    /\ op = "tick_idle"
    /\ artifact.mtime > last_modified
    /\ artifact.fault = "metadata"

\* A reload signal is in flight in a running host, and b is the parity of
\* the Reload steps taken so far.
Waiting(b) ==
    phase = "running" /\ pending > 0 /\ served = b

C19_DestructorPairing ==
    /\ \A i \in Calls("destroy") :
          /\ trace[i].img /= NoLib
          /\ trace[i].h \in Handles
          /\ trace[i].img = heap[trace[i].h].image
    /\ phase = "running" =>
          /\ destroy_fn /= NoLib
          /\ destroy_fn = heap[app_interface].image
          /\ destroy_fn = lib

\* The instance made by the second image has been destroyed at shutdown
\* through the second image's destroy entry point.
C19_Witness ==
    /\ op = "drop"
    /\ app_interface = 2
    /\ \E i \in Calls("destroy") : trace[i].h = 2 /\ trace[i].img = 2

Installed == (New /\ phase' = "running") \/ ReloadOk

\* C20: baseline pairing.  A step that installs an instance sets
\* last_modified to the modification time its load read, and the library
\* of the active instance is the copy made for that time; last_modified
\* and the instance handle change in no other step: not in a Tick, an
\* Increment/Decrement, a view or a failed Reload.
C20_BaselinePairing ==
    [][/\ Installed => last_modified' = artifact.mtime
       /\ last_modified' /= last_modified => Installed
       /\ app_interface' /= app_interface => Installed
       /\ (Tick \/ Increment \/ Decrement \/ View \/ ReloadFailed)
             => UNCHANGED <<last_modified, app_interface>>
       /\ phase' = "running" =>
             images'[lib'].path =
                make_lib_path(<<lib_info.name, format_suffix(last_modified')>>)]_vars

\* A reload has read a newer modification time and failed: the baseline
\* is still the one of the active instance.
C20_Witness ==
    /\ op = "reload_failed"
    /\ attempted = artifact.mtime
    /\ artifact.mtime > last_modified

====
